---- MODULE Spec2Model ----
(***************************************************************************)
(* Authenticated API client of the mental-wellness frontend: the axios     *)
(* instance with its request and response interceptors (token attach,      *)
(* refresh on 401, single retry), the browser token store shared by the    *)
(* tabs, the AuthProvider flag of each tab, logout and login.              *)
(*                                                                         *)
(* One step of the model is one browser task: the arrival of a response    *)
(* together with every promise continuation it runs, a click handler, a    *)
(* storage event, or a page load.                                          *)
(*                                                                         *)
(* The daily-notification utilities of the same file (schedule, cancel)    *)
(* are a second machine over variables of their own, run by                *)
(* SpecNotification.  Each feature panel (breathing exercise, chat, mood   *)
(* history, goal tracker, reminder settings) is a machine over one record  *)
(* variable that holds the state of the component, run by a specification  *)
(* of its own.                                                             *)
(***************************************************************************)
EXTENDS Integers, Sequences, FiniteSets, Bags, TLC

\* ---------------------------------------------------------------- bounds
MaxPending == 2     \* logical requests (calls of send) pending at the same time
MaxRefresh == 2     \* refresh calls issued on behalf of the requests pending together
MaxClock == 5       \* minutes of wall-clock time that pass
MaxTimers == 2      \* calls of scheduleDailyNotification
MaxCancels == 1     \* calls of cancelScheduledNotifications
HoursPerDay == 2    \* the day of the model: HoursPerDay hours
MinutesPerHour == 2 \* of MinutesPerHour minutes
MaxCycles == 2      \* breathing cycles completed after a Start
MaxSubmits == 2     \* chat messages submitted to the analyze endpoint
MaxPage == 2        \* pages of the mood history
MaxFetches == 2     \* history requests in flight at the same time
MaxGoals == 2       \* goals the server returns for the list
MaxOps == 2         \* complete and delete requests in flight at the same time

\* ------------------------------------------------------------- constants
Unauthorized == 401
MIN_CHAR == 5

Tabs == {"t1", "t2"}
\* the tab whose client sends the requests; the other tab shares the store,
\* logs out and handles the storage events
ClientTabs == {"t1"}
AccessTokens == {"A1", "A2"}
RefreshTokens == {"R1", "R2"}
\* the token pairs the login endpoint issues
LoginPairs == {<<"A1", "R1">>, <<"A2", "R2">>}
Absent == "absent"                 \* localStorage.getItem(...) === null
Statuses == {200, 401, 500, 0}     \* 0: no response received (error.response undefined)
Paths == {"/history/", "/token/"}  \* a feature-panel resource, the login endpoint
NoHeader == <<>>

VARIABLES
    store,        \* localStorage: the accessToken and refreshToken entries
    isLoggedIn,   \* AuthProvider's flag, one per tab
    redirecting,  \* window.location.href = '/login' assigned, page not yet replaced
    storageEvt,   \* a 'storage' event is queued for the tab
    pending,      \* the bag of logical requests that have not resolved
    ev,           \* what the last step did (history, read by the properties only)
    clock,        \* wall-clock time, in minutes since midnight of the first day
    timers,       \* the bag of timeouts set by scheduleNext and not yet run
    cancels,      \* calls of cancelScheduledNotifications so far (history)
    fired,        \* the timeout whose callback the last step invoked (history)
    breathing,    \* BreathingExercise: its state hooks, its timeout, its history
    chat,         \* ChatInterface: its state hooks, the request in flight, history
    moodHistory,  \* MoodHistory: its state hooks, the requests in flight, history
    goalTracker,  \* GoalTracker: its state hooks, the requests in flight, history
    reminderSettings  \* ReminderSettings: its state hooks, requests, the server

authVars == <<store, isLoggedIn, redirecting, storageEvt, pending, ev>>
notificationVars == <<clock, timers, cancels, fired>>
panelVars == <<breathing, chat, moodHistory, goalTracker, reminderSettings>>
vars == <<store, isLoggedIn, redirecting, storageEvt, pending, ev,
          clock, timers, cancels, fired, breathing, chat, moodHistory,
          goalTracker, reminderSettings>>

\* what the steps of one machine leave unchanged
outsideAuth == <<notificationVars, panelVars>>
outsideNotification == <<authVars, panelVars>>
outsideBreathing ==
    <<authVars, notificationVars, chat, moodHistory, goalTracker, reminderSettings>>
outsideChat ==
    <<authVars, notificationVars, breathing, moodHistory, goalTracker, reminderSettings>>
outsideMoodHistory ==
    <<authVars, notificationVars, breathing, chat, goalTracker, reminderSettings>>
outsideReminderSettings ==
    <<authVars, notificationVars, breathing, chat, moodHistory, goalTracker>>
outsideGoalTracker ==
    <<authVars, notificationVars, breathing, chat, moodHistory, reminderSettings>>

\* ----------------------------------------------------------- pure helpers
Bearer(tok) == <<"Bearer", tok>>

IsSuccess(status) == status = 200

\* (variant: the interceptor leaves the header as the config has it)
RequestInterceptorNoAttach(hdr, accessToken) == hdr

\* request interceptor: attach the stored access token, if any
RequestInterceptor(hdr, accessToken) ==
    IF accessToken # Absent THEN Bearer(accessToken) ELSE hdr

\* (variant: the retry flag of the config is not consulted)
ShouldRefreshIgnoringRetry(status, retry) ==
    status # 0 /\ status = Unauthorized

\* (variant: every failure status starts a refresh)
ShouldRefreshAnyStatus(status, retry) ==
    status # 0 /\ ~retry

\* (variant: no refresh is started while another request's refresh call is in flight)
ShouldRefreshDeduplicated(status, retry) ==
    status # 0 /\ status = Unauthorized /\ ~retry
        /\ \A o \in BagToSet(pending) : o.depth = 0

\* the condition under which the response interceptor refreshes and retries
ShouldRefresh(status, retry) ==
    status # 0 /\ status = Unauthorized /\ ~retry

\* (variant: the new access token is not written)
StoreNewAccessSkipped(s, newAccessToken) == s

\* (variant: the new access token is written under the refresh-token key too)
StoreNewAccessBothKeys(s, newAccessToken) ==
    [s EXCEPT !.accessToken = newAccessToken, !.refreshToken = newAccessToken]

\* localStorage.setItem('accessToken', newAccessToken)
StoreNewAccess(s, newAccessToken) == [s EXCEPT !.accessToken = newAccessToken]

\* (variant: only the access token is removed)
ClearTokensAccessOnly(s) == [s EXCEPT !.accessToken = Absent]

\* (variant: only the refresh token is removed)
ClearTokensRefreshOnly(s) == [s EXCEPT !.refreshToken = Absent]

\* localStorage.removeItem('accessToken'); localStorage.removeItem('refreshToken')
ClearTokens(s) == [s EXCEPT !.accessToken = Absent, !.refreshToken = Absent]

\* (variant: handleLogin writes the access token only)
StoreLoginAccessOnly(s, access, refresh) == [s EXCEPT !.accessToken = access]

\* handleLogin: both tokens of the login response are written
StoreLogin(s, access, refresh) ==
    [s EXCEPT !.accessToken = access, !.refreshToken = refresh]

\* (variant: the flag is computed from the refresh-token entry)
HasAccessRefreshKey(s) == s.refreshToken # Absent

\* AuthProvider: !!localStorage.getItem('accessToken')
HasAccess(s) == s.accessToken # Absent

\* route guards
PrivateRoute(flag) == IF flag THEN "child" ELSE "/login"
\* (variant: the public guard tests the flag the way the private guard does)
PublicRouteInverted(flag) == IF flag THEN "child" ELSE "/dashboard"

PublicRoute(flag) == IF ~flag THEN "child" ELSE "/dashboard"

\* (variant: no tab is told of a change of the store)
NotifyNobody(t, old, new) == storageEvt

\* a 'storage' event is queued in every other tab when a tab changes the store
Notify(t, old, new) ==
    [u \in Tabs |-> IF u # t /\ old # new THEN TRUE ELSE storageEvt[u]]

\* A logical request that has not resolved.  Its calls form a stack: the
\* original request (depth 0) and, above it, the refresh calls issued by the
\* error handlers suspended at their await (axiosInstance.js:57); only the
\* top call is in flight.  retry is the flag of the top call's config, bodies
\* the payloads of the refresh calls of the stack; nRefresh counts the
\* refresh calls issued so far, err0 is the status of the error the handler
\* of the original request holds.
NewRequest(t, p) ==
    [tab |-> t, path |-> p, depth |-> 0, retry |-> FALSE, bodies |-> <<>>,
     nRefresh |-> 0, err0 |-> 0]

\* responses received so far: one per refresh call issued (the 401 that
\* caused it) and one per refresh call that has returned
Answered(q) == 2 * q.nRefresh - q.depth

RECURSIVE SumRefresh(_)
SumRefresh(S) ==
    IF S = {} THEN 0
    ELSE LET q == CHOOSE x \in S : TRUE
         IN  q.nRefresh * CopiesIn(q, pending) + SumRefresh(S \ {q})

\* refresh calls issued on behalf of the requests now pending
RefreshIssued == SumRefresh(BagToSet(pending))

NoRequest == NewRequest("none", "none")

NoOutcome == [ok |-> FALSE, status |-> 0, via |-> "none"]
Outcome(ok, status, via) == [ok |-> ok, status |-> status, via |-> via]

NoCall == [kind |-> "none", hdr |-> NoHeader, body |-> Absent]
Call(kind, hdr, body) == [kind |-> kind, hdr |-> hdr, body |-> body]

\* The last step: the request it acted on (as it was before the step; for a
\* logout or a storage event, a blank request that names the tab), the
\* response it delivered (status, access token of the body), the outcome
\* send resolved with and the network call it dispatched, if any.
Event(kind, q, status, access, out, sent) ==
    [kind |-> kind, q |-> q, status |-> status, access |-> access,
     out |-> out, sent |-> sent]

NoEvent == Event("none", NoRequest, 0, Absent, NoOutcome, NoCall)

Put(q) == SetToBag({q})

\* ---------------------------------------------------- notification helpers
\* a time of day 'HH:MM', as the pair time.split(':').map(Number) yields
Times == (0 .. HoursPerDay - 1) \X (0 .. MinutesPerHour - 1)

DayLen == HoursPerDay * MinutesPerHour

\* new Date() with setHours(hours, minutes, 0, 0): that time of the current day
SetHours(now, hours, minutes) == (now - (now % DayLen)) + hours * MinutesPerHour + minutes

\* scheduleNext: the instant the timeout is set for; if the time has passed
\* today (scheduled <= now), the same time tomorrow
Scheduled(time, now) ==
    LET scheduled == SetHours(now, time[1], time[2])
    IN  IF scheduled <= now THEN scheduled + DayLen ELSE scheduled

\* A pending timeout of one scheduleDailyNotification chain; epoch is the
\* number of cancel calls made before the chain was started (history).
Timer(time, due, epoch) == [time |-> time, due |-> due, epoch |-> epoch]
NoTimer == Timer(<<0, 0>>, 0, -1)

\* ------------------------------------------------------- breathing helpers
\* the phase durations of the patterns, in seconds (the name is left out)
patterns ==
    [p478 |-> [inhale |-> 4, hold |-> 7, exhale |-> 8],
     box  |-> [inhale |-> 4, hold |-> 4, exhale |-> 4, hold2 |-> 4],
     deep |-> [inhale |-> 5, hold |-> 0, exhale |-> 5]]

PatternKeys == DOMAIN patterns

NoTimeout == [set |-> FALSE, timeLeft |-> 0]

\* (variant: inhale is followed by exhale)
PhaseAfterSkippingHold(phase) ==
    IF phase = "inhale" THEN "exhale"
    ELSE IF phase = "hold" THEN "exhale"
    ELSE "inhale"

\* the phase the effect moves to when the time of a phase is used up
PhaseAfter(phase) ==
    IF phase = "inhale" THEN "hold"
    ELSE IF phase = "hold" THEN "exhale"
    ELSE "inhale"

\* (variant: the effect sets its timeout whether or not the exercise is active)
EffectAlways(b) ==
    [b EXCEPT !.timeout = IF b.timeLeft > 0
                          THEN [set |-> TRUE, timeLeft |-> b.timeLeft]
                          ELSE NoTimeout]

\* The effect after a render: its cleanup clears the timeout of the render
\* before, and while the exercise is active with time left it sets a timeout
\* whose callback holds the timeLeft of this render.
Effect(b) ==
    [b EXCEPT !.timeout = IF b.isActive /\ b.timeLeft > 0
                          THEN [set |-> TRUE, timeLeft |-> b.timeLeft]
                          ELSE NoTimeout]

\* ------------------------------------------------------------ chat helpers
\* what the user can have in the text area: nothing, blanks only, four
\* letters between blanks, five letters, five letters between blanks
Texts ==
    { <<>>,
      <<" ", " ", " ", " ", " ", " ">>,
      <<" ", "a", "b", "c", "d", " ">>,
      <<"a", "b", "c", "d", "e">>,
      <<" ", "a", "b", " ", "d", "e", " ">> }

RECURSIVE TrimStart(_)
TrimStart(text) ==
    IF text # <<>> /\ Head(text) = " " THEN TrimStart(Tail(text)) ELSE text

RECURSIVE TrimEnd(_)
TrimEnd(text) ==
    IF text # <<>> /\ text[Len(text)] = " "
    THEN TrimEnd(SubSeq(text, 1, Len(text) - 1))
    ELSE text

\* String.prototype.trim
Trim(text) == TrimEnd(TrimStart(text))

NoError == "null"
NoId == 0

\* the user message of a submit and the AI message of its response; the ids
\* are Date.now() values, taken here as never repeated
UserMessage(id, text) == [id |-> id, type |-> "user", text |-> text]
AiMessage(id) == [id |-> id, type |-> "ai", text |-> <<"r">>]

\* (variant: the failed submission is left in the list)
RemoveMessageNot(msgs, id) == msgs

\* prev.filter(msg => msg.id !== userMessage.id)
RemoveMessage(msgs, id) == SelectSeq(msgs, LAMBDA msg : msg.id # id)

\* ---------------------------------------------------- mood-history helpers
\* the filter buttons: All and the emotions (two of the five)
Filters == {"all", "happy", "sad"}

\* params of fetchHistory: the page, and the emotion unless the filter is all
Params(filter, page) ==
    [page |-> page, emotion |-> IF filter # "all" THEN filter ELSE "undefined"]

\* response.data.results of the server for the params of a request: the
\* entries are named by the query that selects them; empty says whether the
\* list has no entry
Results(params, empty) == [of |-> params, empty |-> empty]

\* useState([]) (entries)
NoEntries == [of |-> [page |-> 0, emotion |-> "undefined"], empty |-> TRUE]

\* fetchHistory up to its await, as run by the effect or by Try Again
FetchHistory(m) ==
    [m EXCEPT !.isLoading = TRUE,
              !.fetches = @ (+) SetToBag({Params(m.filter, m.page)})]

\* the effect with dependencies [filter, page]: it runs when one has changed
FilterPageEffect(old, new) ==
    IF new.filter # old.filter \/ new.page # old.page THEN FetchHistory(new) ELSE new

\* ---------------------------------------------------- goal-tracker helpers
Goal(id, completed) == [id |-> id, completed |-> completed]

\* response.data.results of GET /goals/: the goals of the user, none completed
GoalsOnServer == [i \in 1 .. MaxGoals |-> Goal(i, FALSE)]

\* a complete or delete request in flight; goals is the list of the render
\* in which the button was clicked, which the handler holds
Op(kind, goalId, goals) == [kind |-> kind, goalId |-> goalId, goals |-> goals]

\* goals.filter(g => g.id !== goalId)
DeletedFrom(goals, goalId) == SelectSeq(goals, LAMBDA g : g.id # goalId)

\* goals.map(g => g.id === goalId ? response.data : g)
CompletedIn(goals, goalId) ==
    [i \in DOMAIN goals |-> IF goals[i].id = goalId THEN Goal(goalId, TRUE) ELSE goals[i]]

\* ------------------------------------------------ reminder-settings helpers
\* the preferences object, with two of its fields
Fields == {"reminder_enabled", "reminder_time"}
ValuesOf(field) ==
    IF field = "reminder_enabled" THEN BOOLEAN ELSE {"09:00", "21:00"}

\* useState(null) (preferences)
NoPreferences == [reminder_enabled |-> FALSE, reminder_time |-> "null"]

\* what the server holds when the panel is mounted
StoredPreferences == [reminder_enabled |-> FALSE, reminder_time |-> "09:00"]

\* ------------------------------------------------------------------- Init
Init ==
    /\ store \in {[accessToken |-> Absent, refreshToken |-> Absent],
                  [accessToken |-> "A1", refreshToken |-> "R1"]}
    /\ isLoggedIn = [t \in Tabs |-> HasAccess(store)]
    /\ redirecting = [t \in Tabs |-> FALSE]
    /\ storageEvt = [t \in Tabs |-> FALSE]
    /\ pending = EmptyBag
    /\ ev = NoEvent
    /\ clock = 0
    /\ timers = EmptyBag
    /\ cancels = 0
    /\ fired = NoTimer
    /\ breathing = [isActive |-> FALSE, phase |-> "inhale", timeLeft |-> 4,
                    pattern |-> "p478", sessionCount |-> 0, timeout |-> NoTimeout,
                    \* history: ticks of the phase so far, exhale phases ended
                    \* since Start, phases of the cycle so far, the last step
                    ticks |-> 0, ended |-> 0, visited |-> {"inhale"}, did |-> "none"]
    /\ chat = [messages |-> <<>>, inputText |-> <<>>, isLoading |-> FALSE,
               error |-> NoError, charCount |-> 0,
               \* the id of the user message whose request is in flight, the
               \* ids handed out so far
               inFlight |-> NoId, ids |-> 0,
               \* history: the list before the last submit, Clear Chat used
               \* since, the last step
               before |-> <<>>, cleared |-> FALSE, did |-> "none"]
    \* MoodHistory is mounted and the effect has run fetchHistory once
    /\ moodHistory = [entries |-> NoEntries, isLoading |-> TRUE, error |-> NoError,
                      filter |-> "all", page |-> 1, hasMore |-> FALSE,
                      fetches |-> SetToBag({Params("all", 1)}),
                      \* history: a history request has failed
                      failed |-> FALSE]
    \* GoalTracker is mounted and the effect has run fetchGoals
    /\ goalTracker = [goals |-> <<>>, isLoading |-> TRUE, error |-> NoError,
                      fetching |-> TRUE, ops |-> {},
                      \* history: the goals whose delete and whose complete
                      \* succeeded, the last step
                      deleted |-> {}, completed |-> {}, did |-> "none"]
    \* ReminderSettings is mounted and the effect has run fetchPreferences
    /\ reminderSettings =
         [preferences |-> NoPreferences, isLoading |-> TRUE, isSaving |-> FALSE,
          error |-> NoError, success |-> FALSE, hasChanges |-> FALSE,
          \* a GET in flight, the body of the PATCH in flight
          fetching |-> TRUE, saving |-> NoPreferences,
          \* the preferences the server holds
          server |-> StoredPreferences,
          \* history: the preferences of the last response, the last step
          returned |-> NoPreferences, did |-> "none"]

\* ---------------------------------------------------------------- actions
\* A feature panel (rendered under the private guard) or the login form
\* (rendered under the public guard) calls the client.
Send(t, p) ==
    /\ BagCardinality(pending) < MaxPending
    /\ IF p = "/token/" THEN PublicRoute(isLoggedIn[t]) = "child"
                        ELSE PrivateRoute(isLoggedIn[t]) = "child"
    /\ pending' = pending (+) Put(NewRequest(t, p))
    /\ ev' = Event("send", NoRequest, 0, Absent, NoOutcome,
                   Call("original", RequestInterceptor(NoHeader, store.accessToken), Absent))
    /\ UNCHANGED <<store, isLoggedIn, redirecting, storageEvt>>
    /\ UNCHANGED outsideAuth

\* A success response to the original request or to its retry: the response
\* interceptor returns it unchanged; handleLogin then writes both tokens and
\* sets the flag.
ResolveSuccess(q, access, refresh) ==
    LET login == q.path = "/token/"
        newStore == IF login THEN StoreLogin(store, access, refresh) ELSE store
    IN  /\ BagIn(q, pending) /\ q.depth = 0
        /\ <<access, refresh>> \in LoginPairs
        /\ login \/ <<access, refresh>> = <<"A1", "R1">>
        /\ pending' = pending (-) Put(q)
        /\ store' = newStore
        /\ isLoggedIn' = IF login THEN [isLoggedIn EXCEPT ![q.tab] = TRUE]
                                  ELSE isLoggedIn
        /\ storageEvt' = Notify(q.tab, store, newStore)
        /\ ev' = Event("response", q, 200, IF login THEN access ELSE Absent,
                       Outcome(TRUE, 200, IF q.retry THEN "retry" ELSE "first"),
                       NoCall)
        /\ UNCHANGED redirecting
        /\ UNCHANGED outsideAuth

\* A success response to a refresh call: the handler awaiting it stores the
\* new access token, sets the header of its request and dispatches it again.
RefreshSucceeded(q, access) ==
    LET newStore == StoreNewAccess(store, access)
        below == q.depth - 1
    IN  /\ BagIn(q, pending) /\ q.depth > 0
        /\ store' = newStore
        /\ pending' = (pending (-) Put(q)) (+)
                      Put([q EXCEPT !.depth = below,
                                    !.retry = TRUE,
                                    !.bodies = SubSeq(q.bodies, 1, below)])
        /\ storageEvt' = Notify(q.tab, store, newStore)
        /\ ev' = Event("response", q, 200, access, NoOutcome,
                       Call("retry",
                            RequestInterceptor(Bearer(access), newStore.accessToken),
                            IF below = 0 THEN Absent ELSE q.bodies[below]))
        /\ UNCHANGED <<isLoggedIn, redirecting>>
        /\ UNCHANGED outsideAuth

\* A 401 to a call whose config is not marked retry: mark it and issue a
\* refresh call (a new config, sent through the same instance).
StartRefresh(q, status) ==
    /\ BagIn(q, pending)
    /\ ~IsSuccess(status)
    /\ ShouldRefresh(status, q.retry)
    /\ RefreshIssued < MaxRefresh
    /\ pending' = (pending (-) Put(q)) (+)
                  Put([q EXCEPT !.depth = q.depth + 1,
                                !.retry = FALSE,
                                !.bodies = Append(q.bodies, store.refreshToken),
                                !.err0 = IF q.depth = 0 THEN status ELSE q.err0,
                                !.nRefresh = q.nRefresh + 1])
    /\ ev' = Event("response", q, status, Absent, NoOutcome,
                   Call("refresh", RequestInterceptor(NoHeader, store.accessToken),
                        store.refreshToken))
    /\ UNCHANGED <<store, isLoggedIn, redirecting, storageEvt>>
    /\ UNCHANGED outsideAuth

\* Any other failure of the original request or of its retry is rejected
\* to the caller as it is.
Reject(q, status) ==
    /\ BagIn(q, pending) /\ q.depth = 0
    /\ ~IsSuccess(status)
    /\ ~ShouldRefresh(status, q.retry)
    /\ pending' = pending (-) Put(q)
    /\ ev' = Event("response", q, status, Absent,
                   Outcome(FALSE, status, IF q.retry THEN "retry" ELSE "first"),
                   NoCall)
    /\ UNCHANGED <<store, isLoggedIn, redirecting, storageEvt>>
    /\ UNCHANGED outsideAuth

\* Any other failure of a refresh call rejects the await of the handler
\* below it: its catch removes both tokens and assigns window.location.href,
\* then the handler rejects with its own error; a handler further down
\* awaits that promise and does the same, down to the original request.
RefreshFailed(q, status) ==
    LET newStore == ClearTokens(store)
    IN  /\ BagIn(q, pending) /\ q.depth > 0
        /\ ~IsSuccess(status)
        /\ ~ShouldRefresh(status, q.retry)
        /\ store' = newStore
        /\ redirecting' = [redirecting EXCEPT ![q.tab] = TRUE]
        /\ pending' = pending (-) Put(q)
        /\ storageEvt' = Notify(q.tab, store, newStore)
        /\ ev' = Event("response", q, status, Absent,
                       Outcome(FALSE, q.err0, "refresh"), NoCall)
        /\ UNCHANGED isLoggedIn
        /\ UNCHANGED outsideAuth

\* Header.handleLogout
Logout(t) ==
    LET newStore == ClearTokens(store)
    IN  /\ isLoggedIn[t]
        /\ store' = newStore
        /\ isLoggedIn' = [isLoggedIn EXCEPT ![t] = FALSE]
        /\ storageEvt' = Notify(t, store, newStore)
        /\ ev' = Event("logout", NewRequest(t, "none"), 0, Absent, NoOutcome, NoCall)
        /\ UNCHANGED <<redirecting, pending>>
        /\ UNCHANGED outsideAuth

\* AuthProvider.handleStorageChange
StorageChange(t) ==
    /\ storageEvt[t]
    /\ storageEvt' = [storageEvt EXCEPT ![t] = FALSE]
    /\ isLoggedIn' = [isLoggedIn EXCEPT ![t] = HasAccess(store)]
    /\ ev' = Event("storage", NewRequest(t, "none"), 0, Absent, NoOutcome, NoCall)
    /\ UNCHANGED <<store, redirecting, pending>>
    /\ UNCHANGED outsideAuth

\* The navigation started by window.location.href = '/login' completes: the
\* document is replaced, its pending requests are gone with it, and the new
\* AuthProvider initialises its flag from the store.
PageLoad(t) ==
    /\ redirecting[t]
    /\ redirecting' = [redirecting EXCEPT ![t] = FALSE]
    /\ isLoggedIn' = [isLoggedIn EXCEPT ![t] = HasAccess(store)]
    /\ storageEvt' = [storageEvt EXCEPT ![t] = FALSE]
    /\ pending' = [q \in {x \in DOMAIN pending : x.tab # t} |-> pending[q]]
    /\ ev' = NoEvent
    /\ UNCHANGED store
    /\ UNCHANGED outsideAuth

Requests == BagToSet(pending)

Next ==
    \/ \E t \in ClientTabs, p \in Paths : Send(t, p)
    \/ \E q \in Requests, a \in AccessTokens, f \in RefreshTokens : ResolveSuccess(q, a, f)
    \/ \E q \in Requests, a \in AccessTokens : RefreshSucceeded(q, a)
    \/ \E q \in Requests, s \in Statuses : StartRefresh(q, s)
    \/ \E q \in Requests, s \in Statuses : Reject(q, s)
    \/ \E q \in Requests, s \in Statuses : RefreshFailed(q, s)
    \/ \E t \in Tabs : Logout(t)
    \/ \E t \in Tabs : StorageChange(t)
    \/ \E t \in Tabs : PageLoad(t)

Spec == Init /\ [][Next]_vars

\* The browser delivers a queued storage event: the listener of
\* AuthProvider runs once the event is queued.
FairSpec == Spec /\ \A t \in Tabs : WF_vars(StorageChange(t))

\* ----------------------------------------------------- notification steps
\* scheduleDailyNotification(time, callback): parse the time, call scheduleNext
scheduleDailyNotification(time) ==
    /\ BagCardinality(timers) < MaxTimers
    /\ timers' = timers (+) SetToBag({Timer(time, Scheduled(time, clock), cancels)})
    /\ fired' = NoTimer
    /\ UNCHANGED <<clock, cancels>>
    /\ UNCHANGED outsideNotification

\* The timeout runs, at its instant or later: callback(), then scheduleNext()
\* sets the timeout of the next day.
Timeout(tm) ==
    /\ BagIn(tm, timers)
    /\ tm.due <= clock
    /\ fired' = tm
    /\ timers' = (timers (-) SetToBag({tm})) (+)
                 SetToBag({Timer(tm.time, Scheduled(tm.time, clock), tm.epoch)})
    /\ UNCHANGED <<clock, cancels>>
    /\ UNCHANGED outsideNotification

\* cancelScheduledNotifications(): writes a line to the console
cancelScheduledNotifications ==
    /\ cancels < MaxCancels
    /\ cancels' = cancels + 1
    /\ fired' = NoTimer
    /\ UNCHANGED <<clock, timers>>
    /\ UNCHANGED outsideNotification

\* a minute passes
Tick ==
    /\ clock < MaxClock
    /\ clock' = clock + 1
    /\ fired' = NoTimer
    /\ UNCHANGED <<timers, cancels>>
    /\ UNCHANGED outsideNotification

NextNotification ==
    \/ \E time \in Times : scheduleDailyNotification(time)
    \/ \E tm \in BagToSet(timers) : Timeout(tm)
    \/ cancelScheduledNotifications
    \/ Tick

SpecNotification == Init /\ [][NextNotification]_vars

\* -------------------------------------------------------- breathing steps
\* handleStart (the Start button is rendered while the exercise is inactive)
handleStart ==
    /\ ~breathing.isActive
    /\ breathing' = Effect([breathing EXCEPT
                        !.isActive = TRUE,
                        !.phase = "inhale",
                        !.timeLeft = patterns[breathing.pattern].inhale,
                        !.sessionCount = 0,
                        !.ticks = 0, !.ended = 0, !.visited = {"inhale"},
                        !.did = "start"])
    /\ UNCHANGED outsideBreathing

\* handleStop (the Stop button is rendered while the exercise is active)
handleStop ==
    /\ breathing.isActive
    /\ breathing' = Effect([breathing EXCEPT
                        !.isActive = FALSE,
                        !.phase = "inhale",
                        !.timeLeft = patterns[breathing.pattern].inhale,
                        !.timeout = NoTimeout,
                        !.ticks = 0, !.visited = {"inhale"},
                        !.did = "stop"])
    /\ UNCHANGED outsideBreathing

\* A pattern button (disabled while the exercise is active): setPattern(key)
\* and handleStop(), whose currentPattern is the pattern of the render in
\* which the button was clicked.
selectPattern(key) ==
    /\ ~breathing.isActive
    /\ breathing' = Effect([breathing EXCEPT
                        !.pattern = key,
                        !.isActive = FALSE,
                        !.phase = "inhale",
                        !.timeLeft = patterns[breathing.pattern].inhale,
                        !.timeout = NoTimeout,
                        !.ticks = 0, !.visited = {"inhale"},
                        !.did = "select"])
    /\ UNCHANGED outsideBreathing

\* the timeout of the effect runs after one second: setTimeLeft(timeLeft - 1)
TimeoutTick ==
    /\ breathing.timeout.set
    /\ breathing' = Effect([breathing EXCEPT
                        !.timeLeft = breathing.timeout.timeLeft - 1,
                        !.ticks = @ + 1,
                        !.did = "tick"])
    /\ UNCHANGED outsideBreathing

\* the effect of a render with the exercise active and no time left: move to
\* the next phase, and count the cycle when the last phase ends
PhaseEffect ==
    LET next == PhaseAfter(breathing.phase)
        last == breathing.phase \notin {"inhale", "hold"}
    IN  /\ breathing.isActive /\ breathing.timeLeft = 0
        /\ last => breathing.sessionCount < MaxCycles
        /\ breathing' = Effect([breathing EXCEPT
                            !.phase = next,
                            !.timeLeft = patterns[breathing.pattern][next],
                            !.sessionCount = IF last THEN @ + 1 ELSE @,
                            !.ticks = 0,
                            !.ended = IF breathing.phase = "exhale" THEN @ + 1 ELSE @,
                            !.visited = IF last THEN {next} ELSE @ \cup {next},
                            !.did = "phase"])
        /\ UNCHANGED outsideBreathing

NextBreathing ==
    \/ handleStart
    \/ handleStop
    \/ \E key \in PatternKeys : selectPattern(key)
    \/ TimeoutTick
    \/ PhaseEffect

SpecBreathing == Init /\ [][NextBreathing]_vars

\* ------------------------------------------------------------- chat steps
\* handleInputChange (the text area is disabled while a request is loading)
handleInputChange(text) ==
    /\ ~chat.isLoading
    /\ chat' = [chat EXCEPT !.inputText = text, !.charCount = Len(text),
                            !.error = NoError, !.did = "input"]
    /\ UNCHANGED outsideChat

\* handleSubmit up to its await (Enter in the text area or the Send button,
\* both disabled while a request is loading)
handleSubmit ==
    LET text == Trim(chat.inputText)
        id == chat.ids + 1
    IN  /\ ~chat.isLoading
        /\ IF Len(text) < MIN_CHAR
           THEN chat' = [chat EXCEPT !.error = "min", !.did = "short"]
           ELSE /\ chat.ids < 2 * MaxSubmits
                /\ chat' = [chat EXCEPT
                              !.messages = Append(@, UserMessage(id, text)),
                              !.inputText = <<>>, !.charCount = 0,
                              !.isLoading = TRUE, !.error = NoError,
                              !.inFlight = id, !.ids = id + 1,
                              !.before = chat.messages, !.cleared = FALSE,
                              !.did = "submit"]
        /\ UNCHANGED outsideChat

\* the analyze request succeeded: the AI message is appended
analyzeSucceeded ==
    /\ chat.isLoading
    /\ chat' = [chat EXCEPT
                  !.messages = Append(@, AiMessage(chat.inFlight + 1)),
                  !.isLoading = FALSE, !.inFlight = NoId, !.did = "answered"]
    /\ UNCHANGED outsideChat

\* the analyze request failed: the error is shown (the message of the
\* response or the default text) and the user message is removed
analyzeFailed(message) ==
    /\ chat.isLoading
    /\ chat' = [chat EXCEPT
                  !.error = message,
                  !.messages = RemoveMessage(@, chat.inFlight),
                  !.isLoading = FALSE, !.inFlight = NoId, !.did = "failed"]
    /\ UNCHANGED outsideChat

\* clearChat, confirmed (the button is rendered while the list is not empty)
clearChat ==
    /\ Len(chat.messages) > 0
    /\ chat' = [chat EXCEPT !.messages = <<>>, !.cleared = TRUE, !.did = "clear"]
    /\ UNCHANGED outsideChat

NextChat ==
    \/ \E text \in Texts : handleInputChange(text)
    \/ handleSubmit
    \/ analyzeSucceeded
    \/ \E message \in {"server", "default"} : analyzeFailed(message)
    \/ clearChat

SpecChat == Init /\ [][NextChat]_vars

\* ----------------------------------------------------- mood-history steps
\* handleFilterChange, followed by the effect
handleFilterChange(newFilter) ==
    /\ \/ newFilter = moodHistory.filter /\ moodHistory.page = 1
       \/ BagCardinality(moodHistory.fetches) < MaxFetches
    /\ moodHistory' = FilterPageEffect(moodHistory,
                          [moodHistory EXCEPT !.filter = newFilter, !.page = 1])
    /\ UNCHANGED outsideMoodHistory

\* the entries and the pagination are rendered: no spinner, no error, a
\* list that is not empty
ListShown ==
    /\ ~(moodHistory.isLoading /\ moodHistory.entries.empty)
    /\ moodHistory.error = NoError
    /\ ~moodHistory.entries.empty

\* the Previous and Next buttons (disabled while loading), followed by the
\* effect
setPage(newPage) ==
    /\ ListShown /\ ~moodHistory.isLoading
    /\ \/ newPage = moodHistory.page - 1 /\ moodHistory.page > 1
       \/ newPage = moodHistory.page + 1 /\ moodHistory.hasMore
    /\ newPage <= MaxPage
    /\ BagCardinality(moodHistory.fetches) < MaxFetches
    /\ moodHistory' = FilterPageEffect(moodHistory,
                          [moodHistory EXCEPT !.page = newPage])
    /\ UNCHANGED outsideMoodHistory

\* the Try Again button of the error state: fetchHistory
tryAgain ==
    /\ ~(moodHistory.isLoading /\ moodHistory.entries.empty)
    /\ moodHistory.error # NoError
    /\ BagCardinality(moodHistory.fetches) < MaxFetches
    /\ moodHistory' = FetchHistory(moodHistory)
    /\ UNCHANGED outsideMoodHistory

\* a history request succeeded
historySucceeded(params, empty, next) ==
    /\ BagIn(params, moodHistory.fetches)
    /\ moodHistory' = [moodHistory EXCEPT
                         !.fetches = @ (-) SetToBag({params}),
                         !.entries = Results(params, empty),
                         !.hasMore = next,
                         !.error = NoError,
                         !.isLoading = FALSE]
    /\ UNCHANGED outsideMoodHistory

\* a history request failed
historyFailed(params) ==
    /\ BagIn(params, moodHistory.fetches)
    /\ moodHistory' = [moodHistory EXCEPT
                         !.fetches = @ (-) SetToBag({params}),
                         !.error = "Failed to load mood history. Please try again.",
                         !.isLoading = FALSE,
                         !.failed = TRUE]
    /\ UNCHANGED outsideMoodHistory

Fetches == BagToSet(moodHistory.fetches)

NextMoodHistory ==
    \/ \E newFilter \in Filters : handleFilterChange(newFilter)
    \/ \E newPage \in 1 .. MaxPage : setPage(newPage)
    \/ tryAgain
    \/ \E params \in Fetches, empty \in BOOLEAN, next \in BOOLEAN :
          historySucceeded(params, empty, next)
    \/ \E params \in Fetches : historyFailed(params)

SpecMoodHistory == Init /\ [][NextMoodHistory]_vars

\* ----------------------------------------------------- goal-tracker steps
\* fetchGoals after its await: the list of the server is shown
goalsFetched ==
    /\ goalTracker.fetching
    /\ goalTracker' = [goalTracker EXCEPT !.goals = GoalsOnServer,
                                          !.fetching = FALSE, !.isLoading = FALSE,
                                          !.did = "fetched"]
    /\ UNCHANGED outsideGoalTracker

\* the goals with the Complete and Delete buttons: those shown as not completed
Actionable == {goalTracker.goals[i].id : i \in {j \in DOMAIN goalTracker.goals :
                                                 ~goalTracker.goals[j].completed}}

\* handleCompleteGoal and handleDeleteGoal (confirmed) up to their await
startOp(kind, goalId) ==
    /\ goalId \in Actionable
    /\ Cardinality(goalTracker.ops) < MaxOps
    /\ goalTracker' = [goalTracker EXCEPT
                         !.ops = @ \cup {Op(kind, goalId, goalTracker.goals)},
                         !.did = "click"]
    /\ UNCHANGED outsideGoalTracker

\* the complete request succeeded
completeSucceeded(op) ==
    /\ op \in goalTracker.ops /\ op.kind = "complete"
    /\ goalTracker' = [goalTracker EXCEPT
                         !.ops = @ \ {op},
                         !.goals = CompletedIn(op.goals, op.goalId),
                         !.completed = @ \cup {op.goalId},
                         !.did = "succeeded"]
    /\ UNCHANGED outsideGoalTracker

\* the delete request succeeded
deleteSucceeded(op) ==
    /\ op \in goalTracker.ops /\ op.kind = "delete"
    /\ goalTracker' = [goalTracker EXCEPT
                         !.ops = @ \ {op},
                         !.goals = DeletedFrom(op.goals, op.goalId),
                         !.deleted = @ \cup {op.goalId},
                         !.did = "succeeded"]
    /\ UNCHANGED outsideGoalTracker

\* a complete or delete request failed
opFailed(op) ==
    /\ op \in goalTracker.ops
    /\ goalTracker' = [goalTracker EXCEPT
                         !.ops = @ \ {op},
                         !.error = IF op.kind = "complete"
                                   THEN "Failed to complete goal. Please try again."
                                   ELSE "Failed to delete goal. Please try again.",
                         !.did = "failed"]
    /\ UNCHANGED outsideGoalTracker

NextGoalTracker ==
    \/ goalsFetched
    \/ \E kind \in {"complete", "delete"}, goalId \in 1 .. MaxGoals : startOp(kind, goalId)
    \/ \E op \in goalTracker.ops : completeSucceeded(op)
    \/ \E op \in goalTracker.ops : deleteSucceeded(op)
    \/ \E op \in goalTracker.ops : opFailed(op)

SpecGoalTracker == Init /\ [][NextGoalTracker]_vars

\* ------------------------------------------------- reminder-settings steps
\* the settings are rendered: not the spinner, not 'Failed to load preferences'
SettingsShown ==
    ~reminderSettings.isLoading /\ reminderSettings.preferences # NoPreferences

\* fetchPreferences after its await, success
preferencesFetched ==
    /\ reminderSettings.fetching
    /\ reminderSettings' = [reminderSettings EXCEPT
                              !.fetching = FALSE,
                              !.preferences = reminderSettings.server,
                              !.isLoading = FALSE,
                              !.returned = reminderSettings.server,
                              !.did = "fetched"]
    /\ UNCHANGED outsideReminderSettings

\* fetchPreferences after its await, failure
preferencesFailed ==
    /\ reminderSettings.fetching
    /\ reminderSettings' = [reminderSettings EXCEPT
                              !.fetching = FALSE,
                              !.error = "Failed to load preferences. Please try again.",
                              !.isLoading = FALSE,
                              !.did = "fetch failed"]
    /\ UNCHANGED outsideReminderSettings

\* handleChange
handleChange(field, value) ==
    /\ SettingsShown
    /\ reminderSettings' = [reminderSettings EXCEPT
                              !.preferences[field] = value,
                              !.hasChanges = TRUE,
                              !.success = FALSE,
                              !.did = "edit"]
    /\ UNCHANGED outsideReminderSettings

\* handleSave up to its await (the Save button of the save bar, disabled
\* while saving)
handleSave ==
    /\ SettingsShown /\ reminderSettings.hasChanges /\ ~reminderSettings.isSaving
    /\ reminderSettings' = [reminderSettings EXCEPT
                              !.saving = reminderSettings.preferences,
                              !.isSaving = TRUE,
                              !.error = NoError,
                              !.success = FALSE,
                              !.did = "save"]
    /\ UNCHANGED outsideReminderSettings

\* the PATCH succeeded: the server holds and returns the saved preferences
saveSucceeded ==
    /\ reminderSettings.saving # NoPreferences
    /\ reminderSettings' = [reminderSettings EXCEPT
                              !.server = reminderSettings.saving,
                              !.preferences = reminderSettings.saving,
                              !.returned = reminderSettings.saving,
                              !.success = TRUE,
                              !.hasChanges = FALSE,
                              !.isSaving = FALSE,
                              !.saving = NoPreferences,
                              !.did = "saved"]
    /\ UNCHANGED outsideReminderSettings

\* the PATCH failed
saveFailed ==
    /\ reminderSettings.saving # NoPreferences
    /\ reminderSettings' = [reminderSettings EXCEPT
                              !.error = "Failed to save preferences. Please try again.",
                              !.isSaving = FALSE,
                              !.saving = NoPreferences,
                              !.did = "save failed"]
    /\ UNCHANGED outsideReminderSettings

\* the Cancel button of the save bar: fetchPreferences(); setHasChanges(false)
cancelChanges ==
    /\ SettingsShown /\ reminderSettings.hasChanges
    /\ reminderSettings' = [reminderSettings EXCEPT
                              !.isLoading = TRUE,
                              !.fetching = TRUE,
                              !.hasChanges = FALSE,
                              !.did = "cancel"]
    /\ UNCHANGED outsideReminderSettings

NextReminderSettings ==
    \/ preferencesFetched
    \/ preferencesFailed
    \/ \E field \in Fields : \E value \in ValuesOf(field) : handleChange(field, value)
    \/ handleSave
    \/ saveSucceeded
    \/ saveFailed
    \/ cancelChanges

SpecReminderSettings == Init /\ [][NextReminderSettings]_vars

\* ------------------------------------------------------------- properties
Responded == ev.kind = "response"
Resolved == Responded /\ ev.out # NoOutcome
\* the response answered the original request, its retry, a refresh call
ToOriginal == Responded /\ ev.q.depth = 0 /\ ~ev.q.retry
ToRetry == Responded /\ ev.q.depth = 0 /\ ev.q.retry
ToRefresh == Responded /\ ev.q.depth > 0
\* a refresh call made on behalf of the request has received a failure: the
\* one just answered, or an earlier one (a second refresh call is only ever
\* issued by the handler of a refresh call's 401)
RefreshCallFailed ==
    Responded /\ (ev.q.nRefresh >= 2 \/ (ToRefresh /\ ~IsSuccess(ev.status)))

\* C1: a response to the retry of a request dispatches no further call and
\* resolves send; a 401 to the retry is the failure the caller receives.
C1_RetryAtMostOnce ==
    ToRetry =>
        /\ ev.sent = NoCall
        /\ Resolved
        /\ (ev.status = Unauthorized =>
                ev.out = Outcome(FALSE, Unauthorized, "retry"))

C1_Witness == ToRetry /\ ev.status = Unauthorized /\ ev.q.nRefresh = 1

\* C2: when the refresh call of a request (whose first response was a 401)
\* succeeds, one retry is dispatched in that step, carrying the token the
\* refresh call returned; the response to the retry is what send resolves
\* with, and nothing is dispatched after it.
C2_RefreshThenOneRetry ==
    /\ (ToRefresh /\ IsSuccess(ev.status)) =>
          /\ ev.q.err0 = Unauthorized
          /\ ev.sent.kind = "retry"
          /\ ev.sent.hdr = Bearer(ev.access)
          /\ ~Resolved
    /\ ToRetry =>
          /\ ev.out = Outcome(IsSuccess(ev.status), ev.status, "retry")
          /\ ev.sent = NoCall

C2_Witness == ToRetry /\ ev.out.ok /\ ev.q.nRefresh = 1

\* C3: a response to a refresh call never starts another refresh call, and
\* no request has more than one refresh call issued on its behalf.
C3_RefreshNeverRefreshed ==
    /\ ToRefresh => ev.sent.kind # "refresh"
    /\ \A q \in BagToSet(pending) : q.nRefresh <= 1

\* C4: send resolves, and once: the original response, the response to the
\* refresh call and the response to the retry are all the responses a send
\* receives, so a request that is still pending has received at most two.
C4_ResolvesWithinThreeResponses ==
    \A q \in BagToSet(pending) : Answered(q) <= 2

\* C5: when a refresh call made on behalf of a request has failed, both
\* tokens are absent and the redirect to /login is triggered at the moment
\* the request resolves.
C5_RefreshFailureClearsTokens ==
    (Resolved /\ RefreshCallFailed) =>
        /\ store.accessToken = Absent
        /\ store.refreshToken = Absent
        /\ redirecting[ev.q.tab]

\* C6: when the refresh call has failed, the flag of the issuing tab is false
\* once the request has resolved, so the private guard redirects to /login.
C6_RefreshFailureUnsetsFlag ==
    (Resolved /\ ev.out.via = "refresh") =>
        /\ ~isLoggedIn[ev.q.tab]
        /\ PrivateRoute(isLoggedIn[ev.q.tab]) = "/login"

\* C7: no failure becomes a success: after a failed refresh call the request
\* resolves as a failure carrying the original 401; a failed response to the
\* original request or to its retry that is not refreshed is a failure.
C7_FailureStaysFailure ==
    Resolved =>
        /\ RefreshCallFailed =>
              (~ev.out.ok /\ ev.out.status = Unauthorized)
        /\ (ev.q.depth = 0 /\ ~IsSuccess(ev.status)) =>
              (~ev.out.ok /\ ev.out.status = ev.status)

\* C8: a failure other than 401 (or no response) to a request or its retry
\* dispatches nothing, leaves the store, the flags and the location as they
\* were and is the failure send resolves with.
C8_OtherFailurePassesThrough ==
    [][(ev'.kind = "response" /\ ev'.q.depth = 0
          /\ ~IsSuccess(ev'.status) /\ ev'.status # Unauthorized) =>
        /\ ev'.sent = NoCall
        /\ store' = store
        /\ isLoggedIn' = isLoggedIn
        /\ redirecting' = redirecting
        /\ ~ev'.out.ok
        /\ ev'.out.status = ev'.status
        /\ ev'.out.via # "refresh"]_vars

C8_Witness == ToOriginal /\ ev.status = 500 /\ Resolved /\ HasAccess(store)

\* C9: every call dispatched while the store holds an access token carries
\* Bearer + that token; a new request (original or refresh call) dispatched
\* while none is stored carries no Authorization header.
C9_BearerAttached ==
    ev.sent.kind # "none" =>
        /\ HasAccess(store) => ev.sent.hdr = Bearer(store.accessToken)
        /\ (~HasAccess(store) /\ ev.sent.kind \in {"original", "refresh"}) =>
              ev.sent.hdr = NoHeader

C9_Witness ==
    /\ ev.sent.kind = "refresh"
    /\ ev.sent.hdr = Bearer("A2")
    /\ store.accessToken = "A2"

\* C10 as stated: after a successful refresh the stored access token is the
\* one returned and the stored refresh token is the payload the refresh call
\* was sent with.
C10_RefreshTokenIsPayload ==
    (ToRefresh /\ IsSuccess(ev.status)) =>
        /\ store.accessToken = ev.access
        /\ store.refreshToken = ev.q.bodies[ev.q.depth]

\* C10 amended: handling a successful refresh response sets the stored
\* access token to the token returned and leaves the stored refresh token
\* and the flags as they were immediately before.
C10_RefreshWritesAccessOnly ==
    [][(ev'.kind = "response" /\ ev'.q.depth > 0 /\ IsSuccess(ev'.status)) =>
        /\ store'.accessToken = ev'.access
        /\ store'.refreshToken = store.refreshToken
        /\ isLoggedIn' = isLoggedIn]_vars

C10_Witness ==
    /\ ToRefresh /\ IsSuccess(ev.status)
    /\ store.accessToken = "A2"
    /\ ev.q.bodies[ev.q.depth] = "R1"
    /\ store.refreshToken = Absent

\* C11: the calls of one logical request are strictly sequential.  A refresh
\* call is dispatched only by the step that handles a 401 (and, above the
\* original request, only once the original's own 401 has arrived); the retry
\* is dispatched only by the step that handles the success response of the
\* refresh call, after the new access token is in the store; every call after
\* the first is dispatched by a step that consumed the response to the call
\* that was in flight, and that step dispatches nothing else.
C11_CallsSequential ==
    /\ ev.sent.kind = "original" => ev.kind = "send"
    /\ ev.sent.kind = "refresh" =>
          /\ Responded /\ ~Resolved
          /\ ev.status = Unauthorized
          /\ ev.q.depth > 0 => ev.q.err0 = Unauthorized
    /\ ev.sent.kind = "retry" =>
          /\ ToRefresh /\ ~Resolved
          /\ IsSuccess(ev.status)
          /\ store.accessToken = ev.access

C11_Witness ==
    /\ ev.sent.kind = "retry" /\ ev.q.depth = 1 /\ ev.q.nRefresh = 1
    /\ ev.q.err0 = Unauthorized /\ store.accessToken = "A2"

\* C12: refresh calls are not de-duplicated.  Every first 401 to an original
\* request starts a refresh call of its own, whatever the other pending
\* requests are doing, and the call carries the refresh token the store holds
\* when that 401 is handled.
C12_OneRefreshPerRequest ==
    (ToOriginal /\ ev.status = Unauthorized) =>
        /\ ev.sent.kind = "refresh"
        /\ ev.sent.body = store.refreshToken
        /\ \E q \in BagToSet(pending) :
              /\ q.depth = 1 /\ q.nRefresh = 1
              /\ q.bodies = <<store.refreshToken>>

\* two requests, each with its own refresh call in flight
C12_Witness ==
    /\ ToOriginal /\ ev.status = Unauthorized
    /\ \E q \in BagToSet(pending) :
          q.depth = 1 /\ q.nRefresh = 1 /\ CopiesIn(q, pending) = 2

\* C13: the refresh calls of two requests race.  The rejection of a refresh
\* call removes both tokens and forces the redirect whatever the store holds,
\* so it also removes the access token that the refresh call of another
\* request has stored; the state of C13_Witness, where one request has been
\* refreshed and the other has been rejected over the same store, is reached.
C13_LoserClearsWinnersToken ==
    (Resolved /\ ev.out.via = "refresh") =>
        /\ ~HasAccess(store)
        /\ store.refreshToken = Absent
        /\ redirecting[ev.q.tab]
        /\ ~ev.out.ok

\* one request has its retry in flight after a successful refresh, the
\* refresh call of the other (payload R1, answered 500) has just cleared the
\* store
C13_Witness ==
    /\ ToRefresh /\ Resolved /\ ev.status = 500
    /\ ev.q.bodies = <<"R1">> /\ ev.q.nRefresh = 1
    /\ store = [accessToken |-> Absent, refreshToken |-> Absent]
    /\ redirecting[ev.q.tab]
    /\ \E o \in BagToSet(pending) :
          o.tab = ev.q.tab /\ o.depth = 0 /\ o.retry /\ o.nRefresh = 1

\* C14 (as stated): in every state the flag of each tab is true exactly when
\* the store holds an access token.
C14_FlagIffToken ==
    \A t \in Tabs : isLoggedIn[t] = (store.accessToken # Absent)

\* C14 (amended): the flag is a cached copy.  Whenever the flag of a tab
\* changes, its new value is the presence of the access token at that moment.
C14_FlagSetFromToken ==
    [][\A t \in Tabs :
          isLoggedIn'[t] # isLoggedIn[t] =>
              isLoggedIn'[t] = (store'.accessToken # Absent)]_vars

\* tab t1 has logged out: its flag follows the store, the flag of t2 is stale
C14_Witness ==
    /\ ev.kind = "logout" /\ ev.q.tab = "t1"
    /\ ~isLoggedIn["t1"] /\ isLoggedIn["t2"] /\ storageEvt["t2"]
    /\ store.accessToken = Absent

\* C15: every step that turns the flag of a tab from true to false (logout,
\* storage event, page load) ends with both tokens absent from the store;
\* a step that turns the flag to true leaves the store as it is, except the
\* login step, where the store holds what handleLogin wrote from the response
\* before it set the flag.
C15_FlagFalseMeansNoTokens ==
    [][\A t \in Tabs :
          /\ (isLoggedIn[t] /\ ~isLoggedIn'[t]) =>
                store' = [accessToken |-> Absent, refreshToken |-> Absent]
          /\ (~isLoggedIn[t] /\ isLoggedIn'[t]) =>
                \/ store' = store
                \/ /\ ev'.kind = "response" /\ ev'.q.path = "/token/" /\ ev'.out.ok
                   /\ store'.accessToken = ev'.access]_vars

\* the storage event of t1's logout has turned the flag of t2 to false
C15_Witness ==
    /\ ev.kind = "storage" /\ ev.q.tab = "t2"
    /\ ~isLoggedIn["t2"] /\ ~isLoggedIn["t1"]
    /\ store = [accessToken |-> Absent, refreshToken |-> Absent]

\* C16: a tab learns of the other tab's login, logout or forced logout by the
\* storage event.  Once the event is queued for a tab, its flag eventually
\* equals the presence of the access token; while the flag of t2 (which
\* writes the store only by its own logout) differs from the store, its event
\* is still queued; and a step in which one tab writes the store leaves the
\* flag of the other tab as it was.
C16_OtherTabCatchesUp ==
    /\ \A t \in Tabs :
          storageEvt[t] ~> (isLoggedIn[t] = (store.accessToken # Absent))
    /\ []((isLoggedIn["t2"] # (store.accessToken # Absent)) => storageEvt["t2"])
    /\ [][\A t \in Tabs :
            isLoggedIn'[t] # isLoggedIn[t] => (store' = store \/ ev'.q.tab = t)]_vars

\* t2 has handled the event of a login in t1 and shows the session
C16_Witness ==
    /\ ev.kind = "storage" /\ ev.q.tab = "t2"
    /\ isLoggedIn["t2"] /\ store = [accessToken |-> "A2", refreshToken |-> "R2"]

\* C17: the guards are complementary.  For the flag of every tab, the private
\* guard renders its child exactly when the flag is true and otherwise
\* redirects to /login, the public guard renders its child exactly when the
\* flag is false and otherwise redirects to /dashboard, and exactly one of
\* the two renders its child.
C17_GuardsComplementary ==
    \A t \in Tabs :
        LET f == isLoggedIn[t]
        IN  /\ (PrivateRoute(f) = "child") = f
            /\ ~f => PrivateRoute(f) = "/login"
            /\ (PublicRoute(f) = "child") = ~f
            /\ f => PublicRoute(f) = "/dashboard"
            /\ (PrivateRoute(f) = "child") # (PublicRoute(f) = "child")

\* both decisions occur: one tab is sent to /login, the other to /dashboard
C17_Witness ==
    /\ PrivateRoute(isLoggedIn["t1"]) = "/login"
    /\ PublicRoute(isLoggedIn["t2"]) = "/dashboard"

\* C19: when a login succeeds, the store holds the access token and the
\* refresh token of the login response, the flag of the tab is true and the
\* private guard renders the dashboard.
C19_LoginStoresBothTokens ==
    (Resolved /\ ev.q.path = "/token/" /\ ev.out.ok) =>
        /\ store.accessToken = ev.access
        /\ <<store.accessToken, store.refreshToken>> \in LoginPairs
        /\ isLoggedIn[ev.q.tab]
        /\ PrivateRoute(isLoggedIn[ev.q.tab]) = "child"

C19_Witness ==
    /\ Resolved /\ ev.q.path = "/token/" /\ ev.out.ok
    /\ store = [accessToken |-> "A2", refreshToken |-> "R2"]
    /\ isLoggedIn[ev.q.tab]

\* C20: after cancelScheduledNotifications has been called, the callback of
\* a notification scheduled before the call is not invoked any more.
C20_CancelStopsNotification ==
    fired # NoTimer => fired.epoch = cancels

\* C21: once a tab has logged out the store holds no access token until the
\* next successful login.  Checked on the step that follows a logout: if it
\* leaves an access token in the store, it is a successful login.
C21_NoTokenAfterLogout ==
    [][(ev.kind = "logout" /\ store'.accessToken # Absent) =>
          (ev'.kind = "response" /\ ev'.q.path = "/token/" /\ ev'.out.ok)]_vars

\* C22: a login attempt that the server rejects, whatever the status, issues
\* no further call: the response to the login request resolves the attempt
\* as a failure, the store and the flag stay as they were and no redirect
\* is forced.
C22_RejectedLoginOnlyShowsError ==
    [][(/\ ev'.kind = "response" /\ ev'.q.path = "/token/"
        /\ ev'.q.depth = 0 /\ ~ev'.q.retry /\ ~IsSuccess(ev'.status)) =>
          /\ ev'.sent = NoCall
          /\ ev'.out = Outcome(FALSE, ev'.status, "first")
          /\ store' = store /\ isLoggedIn' = isLoggedIn
          /\ redirecting' = redirecting]_vars

\* C23: while the exercise is active the phases follow the cycle inhale ->
\* hold -> exhale -> inhale; a phase ends after exactly as many ticks as the
\* pattern gives it (none for a hold of 0); and the cycle counter is the
\* number of exhale phases that have ended since Start.
C23_PhasesFollowPattern ==
    /\ [](breathing.isActive =>
            /\ breathing.sessionCount = breathing.ended
            /\ breathing.ticks + breathing.timeLeft
                  = patterns[breathing.pattern][breathing.phase])
    /\ [][(breathing.isActive /\ breathing'.isActive
            /\ breathing'.phase # breathing.phase) =>
            /\ breathing.ticks = patterns[breathing.pattern][breathing.phase]
            /\ breathing'.phase =
                  CASE breathing.phase = "inhale" -> "hold"
                    [] breathing.phase = "hold" -> "exhale"
                    [] breathing.phase = "exhale" -> "inhale"
                    [] OTHER -> "none"
            /\ breathing'.timeLeft = patterns[breathing.pattern][breathing'.phase]
            /\ breathing'.ticks = 0
            /\ breathing'.sessionCount = breathing'.ended]_vars

\* the deep pattern in the exhale of its second cycle: the hold of 0 has
\* been passed twice
C23_Witness ==
    /\ breathing.isActive /\ breathing.pattern = "deep"
    /\ breathing.phase = "exhale" /\ breathing.timeLeft = 3
    /\ breathing.sessionCount = 1

\* C24: every phase that the pattern defines with a duration above 0 is
\* visited in each cycle (for the box pattern: inhale, hold, exhale, hold2).
C24_EveryPhaseVisited ==
    [][(breathing'.did = "phase"
        /\ breathing'.sessionCount = breathing.sessionCount + 1) =>
          \A ph \in DOMAIN patterns[breathing.pattern] :
              patterns[breathing.pattern][ph] > 0 => ph \in breathing.visited]_vars

\* C25: after Stop the exercise is inactive, in phase inhale, with the time
\* of the selected pattern's inhale and no timeout pending; and while it is
\* inactive, phase, time left and cycle counter change only by a pattern
\* selection.
C25_StopFreezes ==
    /\ [](breathing.did = "stop" =>
            /\ ~breathing.isActive
            /\ breathing.phase = "inhale"
            /\ breathing.timeLeft = patterns[breathing.pattern].inhale
            /\ ~breathing.timeout.set)
    /\ [][(~breathing.isActive /\ ~breathing'.isActive
            /\ breathing'.did # "select") =>
            /\ breathing'.phase = breathing.phase
            /\ breathing'.timeLeft = breathing.timeLeft
            /\ breathing'.sessionCount = breathing.sessionCount]_vars

\* stopped in the second cycle of the 4-7-8 pattern
C25_Witness ==
    /\ breathing.did = "stop" /\ breathing.pattern = "p478"
    /\ breathing.sessionCount = 1 /\ breathing.timeLeft = 4

\* C26 (as stated): when the analyze request fails the message list is the
\* list as it was before the submit, the error is set and loading is false;
\* a submission of fewer than MIN_CHAR characters after trimming sends
\* nothing and leaves the list unchanged.
C26_FailureRestoresList ==
    /\ [](chat.did = "failed" =>
            /\ chat.messages = chat.before
            /\ chat.error # NoError /\ ~chat.isLoading)
    /\ [][(~chat.isLoading /\ chat'.did \in {"short", "submit"}
            /\ Len(Trim(chat.inputText)) < MIN_CHAR) =>
            /\ chat'.messages = chat.messages
            /\ ~chat'.isLoading /\ chat'.inFlight = NoId]_vars

\* C26 (amended): as stated, except that the list is empty after the
\* failure when Clear Chat was used while the request was in flight.
C26_FailureRemovesSubmission ==
    /\ [](chat.did = "failed" =>
            /\ chat.messages = IF chat.cleared THEN <<>> ELSE chat.before
            /\ chat.error # NoError /\ ~chat.isLoading)
    /\ [][(~chat.isLoading /\ chat'.did \in {"short", "submit"}
            /\ Len(Trim(chat.inputText)) < MIN_CHAR) =>
            /\ chat'.messages = chat.messages
            /\ chat'.error = "min"
            /\ ~chat'.isLoading /\ chat'.inFlight = NoId]_vars

\* the second submission has failed and the list is back to the first
\* exchange
C26_Witness ==
    /\ chat.did = "failed" /\ ~chat.cleared
    /\ Len(chat.messages) = 2 /\ chat.messages = chat.before

\* C27: every AI message of the list directly follows a user message.
C27_AiFollowsUser ==
    \A i \in 1 .. Len(chat.messages) :
        chat.messages[i].type = "ai" =>
            i > 1 /\ chat.messages[i - 1].type = "user"

\* C28: a change of the filter sets the page to 1, and once every history
\* request has completed, all of them successfully, the entries shown are
\* those the server returned for the selected filter and page.
C28_EntriesMatchSelection ==
    /\ []((moodHistory.fetches = EmptyBag /\ ~moodHistory.failed) =>
            moodHistory.entries.of = Params(moodHistory.filter, moodHistory.page))
    /\ [][moodHistory'.filter # moodHistory.filter => moodHistory'.page = 1]_vars

\* C29: between two fetches of the list, a goal whose delete succeeded is
\* not shown, a goal whose complete succeeded is not shown as not completed,
\* and a failed complete or delete leaves the list as it is.
C29_SucceededOpsStay ==
    /\ [](\A i \in DOMAIN goalTracker.goals :
            LET g == goalTracker.goals[i]
            IN  /\ g.id \notin goalTracker.deleted
                /\ g.id \in goalTracker.completed => g.completed)
    /\ [][goalTracker'.did = "failed" => goalTracker'.goals = goalTracker.goals]_vars

\* C30: whenever the settings are shown with the unsaved-changes flag false,
\* the preferences shown are those of the last response of the server; an
\* edit sets the flag, and a failed save leaves it set.
C30_NoChangesMeansServerState ==
    /\ []((SettingsShown /\ ~reminderSettings.hasChanges) =>
            reminderSettings.preferences = reminderSettings.returned)
    /\ [](reminderSettings.did = "edit" => reminderSettings.hasChanges)
    /\ [][(reminderSettings'.did = "save failed" /\ reminderSettings.hasChanges) =>
            reminderSettings'.hasChanges]_vars
====
